---------------------------- MODULE Spec2Model ----------------------------
(***************************************************************************)
(* A model of the tui-checkbox widget (src/src/lib.rs): the Checkbox       *)
(* builder, the word wrapping of the label (wrap_text) and the layout and  *)
(* painting of the glyph and the label lines (render, render_checkbox,     *)
(* render_horizontal, render_vertical).                                    *)
(*                                                                         *)
(* Text is a sequence of characters, a character a one-element string.     *)
(* "W" stands for a character that is two terminal columns wide; every     *)
(* other character is one column wide.  A label is a Line: a sequence of   *)
(* Spans (content, style) and a style of the Line itself.                  *)
(***************************************************************************)
EXTENDS Integers, Sequences, FiniteSets, TLC

VARIABLES
    cb,          \* the Checkbox value under construction / being rendered
    area,        \* the Rect handed to render
    ops,         \* the calls render made on the buffer, in order
    pc,          \* "build", "rendered" (widget) or "input", "wrapped" (wrap_text)
    line,        \* wrap_text: the input Line
    max_width,   \* wrap_text: the width to wrap against
    lines,       \* wrap_text: the returned Vec<Line>
    calls,       \* the number of builder calls made on cb
    render_area, \* the working rectangle render_checkbox laid the widget out in
    passed       \* per field, the value last given for it by new or a setter

vars == <<cb, area, ops, pc, line, max_width, lines, calls, render_area, passed>>

--------------------------------------------------------------------------
(* Bounds of the model *)

\* longest label text, in characters, over all of its runs
MaxLabelLen == 4
\* widest area of the layout, and widest wrap target
MaxWidth == 7
\* tallest area of the layout
MaxHeight == 3
\* number of builder calls made on one widget before it is rendered
MaxCalls == 2

\* u16 arithmetic wraps at 2^16 (release build)
U16 == 65536

--------------------------------------------------------------------------
(* Integer helpers: the u16 operations the code uses *)

Min(a, b) == IF a < b THEN a ELSE b

Max(a, b) == IF a > b THEN a ELSE b

Add16(a, b) == (a + b) % U16

saturating_sub(a, b) == IF a > b THEN a - b ELSE 0

--------------------------------------------------------------------------
(* Styles, spans and lines (ratatui::style::Style, ratatui::text) *)

NoColor == "None"

DefaultStyle ==
    [fg |-> NoColor, bg |-> NoColor, add_modifier |-> {}, sub_modifier |-> {}]

Fg(c) == [DefaultStyle EXCEPT !.fg = c]

\* Style::patch: an attribute set in `other` replaces the one of `base`
Patch(base, other) ==
    [fg |-> IF other.fg # NoColor THEN other.fg ELSE base.fg,
     bg |-> IF other.bg # NoColor THEN other.bg ELSE base.bg,
     add_modifier |-> (base.add_modifier \ other.sub_modifier) \cup other.add_modifier,
     sub_modifier |-> (base.sub_modifier \ other.add_modifier) \cup other.sub_modifier]

\* Span::styled(content, style)
Span(content, style) == [content |-> content, style |-> style]

\* Line::from(Vec<Span>): the Line's own style is the default style
LineFrom(spans) == [spans |-> spans, style |-> DefaultStyle]

\* Line::patch_style: patches the style of the Line, not the styles of its spans
LinePatchStyle(l, style) == [l EXCEPT !.style = Patch(@, style)]

\* display width of one character, in terminal columns
CharWidth(c) == IF c = "W" THEN 2 ELSE 1

RECURSIVE TextWidth(_)
\* Span::width: the display width of a text
TextWidth(t) == IF t = <<>> THEN 0 ELSE CharWidth(Head(t)) + TextWidth(Tail(t))

RECURSIVE SpansWidth(_)
SpansWidth(spans) ==
    IF spans = <<>> THEN 0
    ELSE TextWidth(Head(spans).content) + SpansWidth(Tail(spans))

\* Line::width
LineWidth(l) == SpansWidth(l.spans)

RECURSIVE SpansText(_)
\* the characters of a sequence of spans, in order
SpansText(spans) ==
    IF spans = <<>> THEN <<>>
    ELSE Head(spans).content \o SpansText(Tail(spans))

LineText(l) == SpansText(l.spans)

--------------------------------------------------------------------------
(* wrap_text, src/src/lib.rs 820-875 *)

RECURSIVE Split(_)
\* str::split(' '): the pieces between single spaces; an empty text is one
\* empty piece, n spaces give n + 1 pieces
Split(t) ==
    IF \A k \in 1..Len(t) : t[k] # " " THEN <<t>>
    ELSE LET p == CHOOSE k \in 1..Len(t) :
                      t[k] = " " /\ \A j \in 1..(k - 1) : t[j] # " "
         IN  <<SubSeq(t, 1, p - 1)>> \o Split(SubSeq(t, p + 1, Len(t)))

\* the clone of a line: its spans copied, the Line's own style dropped
OwnedLine(l) ==
    LineFrom([k \in 1..Len(l.spans) |-> Span(l.spans[k].content, l.spans[k].style)])

\* WrapWord breaking a word longer than the target after mw characters
WrapWordHardBreak(st, word, i, style, mw) ==
    LET cut         == SubSeq(word, 1, Min(Len(word), mw))
        word_width  == Len(cut) % U16
        space_width == IF i > 0 \/ st.current_line # <<>> THEN 1 ELSE 0
        flush == /\ Add16(Add16(st.current_width, space_width), word_width) > mw
                 /\ st.current_line # <<>>
        st1 == IF flush
               THEN [result        |-> Append(st.result, LineFrom(st.current_line)),
                     current_line  |-> <<>>,
                     current_width |-> 0]
               ELSE st
        st2 == IF i > 0
               THEN [st1 EXCEPT !.current_line  = Append(@, Span(<<" ">>, style)),
                                !.current_width = Add16(@, 1)]
               ELSE st1
        st3 == [st2 EXCEPT !.current_line  = Append(@, Span(cut, style)),
                           !.current_width = Add16(@, word_width)]
    IN  IF Len(word) <= mw THEN st3
        ELSE [result        |-> Append(st3.result, LineFrom(st3.current_line)),
              current_line  |-> <<Span(SubSeq(word, mw + 1, Len(word)), style)>>,
              current_width |-> (Len(word) - mw) % U16]

\* WrapWord flushing a line as soon as the word would fill it
WrapWordEager(st, word, i, style, mw) ==
    LET word_width  == Len(word) % U16
        space_width == IF i > 0 \/ st.current_line # <<>> THEN 1 ELSE 0
        flush == /\ Add16(Add16(st.current_width, space_width), word_width) >= mw
                 /\ st.current_line # <<>>
        st1 == IF flush
               THEN [result        |-> Append(st.result, LineFrom(st.current_line)),
                     current_line  |-> <<>>,
                     current_width |-> 0]
               ELSE st
        st2 == IF i > 0
               THEN [st1 EXCEPT !.current_line  = Append(@, Span(<<" ">>, style)),
                                !.current_width = Add16(@, 1)]
               ELSE st1
    IN  [st2 EXCEPT !.current_line  = Append(@, Span(word, style)),
                    !.current_width = Add16(@, word_width)]

\* WrapWord pushing the separating space without the style of its run
WrapWordRawSeparator(st, word, i, style, mw) ==
    LET word_width  == Len(word) % U16
        space_width == IF i > 0 \/ st.current_line # <<>> THEN 1 ELSE 0
        flush == /\ Add16(Add16(st.current_width, space_width), word_width) > mw
                 /\ st.current_line # <<>>
        st1 == IF flush
               THEN [result        |-> Append(st.result, LineFrom(st.current_line)),
                     current_line  |-> <<>>,
                     current_width |-> 0]
               ELSE st
        st2 == IF i > 0
               THEN [st1 EXCEPT !.current_line  = Append(@, Span(<<" ">>, DefaultStyle)),
                                !.current_width = Add16(@, 1)]
               ELSE st1
    IN  [st2 EXCEPT !.current_line  = Append(@, Span(word, style)),
                    !.current_width = Add16(@, word_width)]

\* WrapWord pushing no separating space at the start of a line
WrapWordDropBreakSpace(st, word, i, style, mw) ==
    LET word_width  == Len(word) % U16
        space_width == IF i > 0 \/ st.current_line # <<>> THEN 1 ELSE 0
        flush == /\ Add16(Add16(st.current_width, space_width), word_width) > mw
                 /\ st.current_line # <<>>
        st1 == IF flush
               THEN [result        |-> Append(st.result, LineFrom(st.current_line)),
                     current_line  |-> <<>>,
                     current_width |-> 0]
               ELSE st
        st2 == IF i > 0 /\ ~flush
               THEN [st1 EXCEPT !.current_line  = Append(@, Span(<<" ">>, style)),
                                !.current_width = Add16(@, 1)]
               ELSE st1
    IN  [st2 EXCEPT !.current_line  = Append(@, Span(word, style)),
                    !.current_width = Add16(@, word_width)]

\* the body of the inner loop for the word of index i (from 0) of a span
WrapWord(st, word, i, style, mw) ==
    LET word_width  == Len(word) % U16
        space_width == IF i > 0 \/ st.current_line # <<>> THEN 1 ELSE 0
        flush == /\ Add16(Add16(st.current_width, space_width), word_width) > mw
                 /\ st.current_line # <<>>
        st1 == IF flush
               THEN [result        |-> Append(st.result, LineFrom(st.current_line)),
                     current_line  |-> <<>>,
                     current_width |-> 0]
               ELSE st
        st2 == IF i > 0
               THEN [st1 EXCEPT !.current_line  = Append(@, Span(<<" ">>, style)),
                                !.current_width = Add16(@, 1)]
               ELSE st1
    IN  [st2 EXCEPT !.current_line  = Append(@, Span(word, style)),
                    !.current_width = Add16(@, word_width)]

RECURSIVE WrapWords(_, _, _, _, _)
\* the inner loop: the words of one span from index i (from 0) on
WrapWords(st, words, i, style, mw) ==
    IF i >= Len(words) THEN st
    ELSE WrapWords(WrapWord(st, words[i + 1], i, style, mw), words, i + 1, style, mw)

RECURSIVE WrapSpans(_, _, _, _)
\* the outer loop: the spans of the line from index k (from 1) on
WrapSpans(st, spans, k, mw) ==
    IF k > Len(spans) THEN st
    ELSE WrapSpans(WrapWords(st, Split(spans[k].content), 0, spans[k].style, mw),
                   spans, k + 1, mw)

\* wrap_text without the early return for a zero width
wrap_text_unguarded(l, mw) ==
    LET st0 == [result |-> <<>>, current_line |-> <<>>, current_width |-> 0]
        st  == WrapSpans(st0, l.spans, 1, mw)
        result == IF st.current_line # <<>>
                  THEN Append(st.result, LineFrom(st.current_line))
                  ELSE st.result
    IN  IF result = <<>> THEN <<OwnedLine(l)>> ELSE result

wrap_text(l, mw) ==
    IF mw = 0 THEN <<OwnedLine(l)>>
    ELSE LET st0 == [result |-> <<>>, current_line |-> <<>>, current_width |-> 0]
             st  == WrapSpans(st0, l.spans, 1, mw)
             result == IF st.current_line # <<>>
                       THEN Append(st.result, LineFrom(st.current_line))
                       ELSE st.result
         IN  IF result = <<>> THEN <<OwnedLine(l)>> ELSE result

--------------------------------------------------------------------------
(* The Checkbox value and its builder, src/src/lib.rs 130-511 *)

\* src/src/symbols.rs; "v" stands for the ballot box with check, "o" for the
\* empty ballot box: one character each, one column wide
CHECKED == <<"v">>

UNCHECKED == <<"o">>

CHECKED_X == <<"[", "X", "]">>

UNCHECKED_SPACE == <<"[", " ", "]">>

\* Option<u16>: None is the empty sequence, Some(n) the sequence of n alone
None == <<>>

Some(n) == <<n>>

\* Default with no glyph seeded
DefaultNoGlyphs ==
    [label                |-> LineFrom(<<>>),
     checked              |-> FALSE,
     block                |-> FALSE,
     style                |-> DefaultStyle,
     checkbox_style       |-> DefaultStyle,
     label_style          |-> DefaultStyle,
     checked_symbol       |-> <<>>,
     unchecked_symbol     |-> <<>>,
     label_position       |-> "Right",
     horizontal_alignment |-> "Left",
     vertical_alignment   |-> "Top",
     min_width            |-> None,
     max_width            |-> None,
     wrap_label           |-> FALSE]

\* impl Default for Checkbox
Default ==
    [label                |-> LineFrom(<<>>),
     checked              |-> FALSE,
     block                |-> FALSE,
     style                |-> DefaultStyle,
     checkbox_style       |-> DefaultStyle,
     label_style          |-> DefaultStyle,
     checked_symbol       |-> CHECKED,
     unchecked_symbol     |-> UNCHECKED,
     label_position       |-> "Right",
     horizontal_alignment |-> "Left",
     vertical_alignment   |-> "Top",
     min_width            |-> None,
     max_width            |-> None,
     wrap_label           |-> FALSE]

\* New placing the label on the left as well
NewLabelLeft(label, checked) ==
    [label                |-> label,
     checked              |-> checked,
     block                |-> FALSE,
     style                |-> DefaultStyle,
     checkbox_style       |-> DefaultStyle,
     label_style          |-> DefaultStyle,
     checked_symbol       |-> CHECKED,
     unchecked_symbol     |-> UNCHECKED,
     label_position       |-> "Left",
     horizontal_alignment |-> "Left",
     vertical_alignment   |-> "Top",
     min_width            |-> None,
     max_width            |-> None,
     wrap_label           |-> FALSE]

\* Checkbox::new
New(label, checked) == [Default EXCEPT !.label = label, !.checked = checked]

\* the fields of a Checkbox
Fields == DOMAIN Default

\* no value given yet for any field
Unset == [f \in Fields |-> <<>>]

--------------------------------------------------------------------------
(* Rendering, src/src/lib.rs 513-818.  The result of a render is the       *)
(* sequence of calls it makes on the buffer:                               *)
(*   [op |-> "set_style", rect, style]   Buffer::set_style                 *)
(*   [op |-> "block", rect]              Block::render                     *)
(*   [op |-> "line", what, rect, line]   Line::render of the glyph or of   *)
(*                                       one label line                    *)

Rect(x, y, width, height) == [x |-> x, y |-> y, width |-> width, height |-> height]

ZeroRect == Rect(0, 0, 0, 0)

\* Rect::is_empty
IsEmpty(r) == r.width = 0 \/ r.height = 0

\* Block::inner of a block with a border on its four sides
BlockInner(r) ==
    [x      |-> Min(Add16(r.x, 1), r.x + r.width),
     y      |-> Min(Add16(r.y, 1), r.y + r.height),
     width  |-> saturating_sub(saturating_sub(r.width, 1), 1),
     height |-> saturating_sub(saturating_sub(r.height, 1), 1)]

PaintLine(what, rect, l) == [op |-> "line", what |-> what, rect |-> rect, line |-> l]

RECURSIVE Flatten(_)
Flatten(ss) == IF ss = <<>> THEN <<>> ELSE Head(ss) \o Flatten(Tail(ss))

RECURSIVE MaxOf(_)
\* Iterator::max().unwrap_or(0) over the widths
MaxOf(ws) == IF ws = <<>> THEN 0 ELSE Max(Head(ws), MaxOf(Tail(ws)))

\* the widths of the label lines, each `l.width() as u16`
LineWidths(ls) == [k \in 1..Len(ls) |-> LineWidth(ls[k]) % U16]

\* AlignOffset with every alignment taking the Center arm
AlignOffsetCentered(alignment, available, content) ==
    saturating_sub(available, content) \div 2

\* AlignOffset with a subtraction that wraps around instead of saturating
AlignOffsetWrapping(alignment, available, content) ==
    CASE alignment \in {"Left", "Top"}      -> 0
      [] alignment = "Center"               -> ((available - content) % U16) \div 2
      [] alignment \in {"Right", "Bottom"}  -> (available - content) % U16

\* the three-way alignment rule: Left/Top, Center, Right/Bottom
AlignOffset(alignment, available, content) ==
    CASE alignment \in {"Left", "Top"}      -> 0
      [] alignment = "Center"               -> saturating_sub(available, content) \div 2
      [] alignment \in {"Right", "Bottom"}  -> saturating_sub(available, content)

\* HorizontalLines wrapping against the whole width of the area
HorizontalLinesFullWidth(c, a, checkbox_width, label) ==
    IF c.wrap_label THEN wrap_text(label, a.width) ELSE <<label>>

\* the label lines render_horizontal lays out
HorizontalLines(c, a, checkbox_width, label) ==
    IF c.wrap_label
    THEN wrap_text(label, saturating_sub(a.width, Add16(checkbox_width, 1)))
    ELSE <<label>>

\* HorizontalTotalWidth without the column of the gap
HorizontalTotalWidthNoGap(checkbox_width, label_lines) ==
    IF label_lines = <<>> THEN checkbox_width
    ELSE Add16(checkbox_width, MaxOf(LineWidths(label_lines)))

\* total_width of render_horizontal
HorizontalTotalWidth(checkbox_width, label_lines) ==
    IF label_lines = <<>> THEN checkbox_width
    ELSE Add16(Add16(checkbox_width, 1), MaxOf(LineWidths(label_lines)))

\* HorizontalRight painting nothing when the glyph is wider than the area
HorizontalRightIfFits(a, checkbox_span, label_lines, x_offset, y_offset) ==
    LET checkbox_width == TextWidth(checkbox_span.content) % U16
        label_x == Add16(Add16(Add16(a.x, x_offset), checkbox_width), 1)
        LabelOp(i) ==
            LET label_y == Add16(Add16(a.y, y_offset), i % U16)
            IN  IF label_y < Add16(a.y, a.height) /\ label_x < Add16(a.x, a.width)
                THEN <<PaintLine("label",
                                 Rect(label_x, label_y,
                                      saturating_sub(a.width,
                                          Add16(Add16(x_offset, checkbox_width), 1)),
                                      1),
                                 label_lines[i + 1])>>
                ELSE <<>>
    IN  IF Add16(x_offset, checkbox_width) <= a.width /\ y_offset < a.height
        THEN <<PaintLine("glyph",
                         Rect(Add16(a.x, x_offset), Add16(a.y, y_offset),
                              checkbox_width, 1),
                         LineFrom(<<checkbox_span>>))>>
             \o Flatten([k \in 1..Len(label_lines) |-> LabelOp(k - 1)])
        ELSE <<>>

\* LabelPosition::Right: the glyph, then the label lines to its right
HorizontalRight(a, checkbox_span, label_lines, x_offset, y_offset) ==
    LET checkbox_width == TextWidth(checkbox_span.content) % U16
        label_x == Add16(Add16(Add16(a.x, x_offset), checkbox_width), 1)
        LabelOp(i) ==
            LET label_y == Add16(Add16(a.y, y_offset), i % U16)
            IN  IF label_y < Add16(a.y, a.height) /\ label_x < Add16(a.x, a.width)
                THEN <<PaintLine("label",
                                 Rect(label_x, label_y,
                                      saturating_sub(a.width,
                                          Add16(Add16(x_offset, checkbox_width), 1)),
                                      1),
                                 label_lines[i + 1])>>
                ELSE <<>>
    IN  IF x_offset < a.width /\ y_offset < a.height
        THEN <<PaintLine("glyph",
                         Rect(Add16(a.x, x_offset), Add16(a.y, y_offset),
                              Min(checkbox_width, saturating_sub(a.width, x_offset)), 1),
                         LineFrom(<<checkbox_span>>))>>
             \o Flatten([k \in 1..Len(label_lines) |-> LabelOp(k - 1)])
        ELSE <<>>

\* LabelPosition::Left: the label lines, then the glyph to their right
HorizontalLeft(a, checkbox_span, label_lines, x_offset, y_offset) ==
    LET checkbox_width  == TextWidth(checkbox_span.content) % U16
        max_label_width == MaxOf(LineWidths(label_lines))
        LabelOp(i) ==
            LET label_y == Add16(Add16(a.y, y_offset), i % U16)
            IN  IF label_y < Add16(a.y, a.height) /\ x_offset < a.width
                THEN <<PaintLine("label",
                                 Rect(Add16(a.x, x_offset), label_y,
                                      Min(max_label_width,
                                          saturating_sub(a.width, x_offset)),
                                      1),
                                 label_lines[i + 1])>>
                ELSE <<>>
        checkbox_x == Add16(Add16(Add16(a.x, x_offset), max_label_width), 1)
    IN  Flatten([k \in 1..Len(label_lines) |-> LabelOp(k - 1)])
        \o IF checkbox_x < Add16(a.x, a.width) /\ y_offset < a.height
           THEN <<PaintLine("glyph",
                            Rect(checkbox_x, Add16(a.y, y_offset),
                                 Min(checkbox_width,
                                     saturating_sub(a.width,
                                         Add16(Add16(x_offset, max_label_width), 1))),
                                 1),
                            LineFrom(<<checkbox_span>>))>>
           ELSE <<>>

render_horizontal(c, a, checkbox_span, label) ==
    IF a.height = 0 \/ a.width = 0 THEN <<>>
    ELSE
    LET checkbox_width == TextWidth(checkbox_span.content) % U16
        label_lines    == HorizontalLines(c, a, checkbox_width, label)
        total_width    == HorizontalTotalWidth(checkbox_width, label_lines)
        x_offset       == AlignOffset(c.horizontal_alignment, a.width, total_width)
        content_height == Len(label_lines) % U16
        y_offset       == AlignOffset(c.vertical_alignment, a.height, content_height)
    IN  CASE c.label_position = "Right" ->
                HorizontalRight(a, checkbox_span, label_lines, x_offset, y_offset)
          [] c.label_position = "Left" ->
                HorizontalLeft(a, checkbox_span, label_lines, x_offset, y_offset)
          [] OTHER -> <<>>

\* VerticalLines wrapping against the width left beside the glyph
VerticalLinesBesideGlyph(c, a, label) ==
    IF c.wrap_label
    THEN wrap_text(label, saturating_sub(a.width, Add16(TextWidth(IF c.checked THEN c.checked_symbol
                                               ELSE c.unchecked_symbol) % U16, 1)))
    ELSE <<label>>

\* the label lines render_vertical lays out
VerticalLines(c, a, label) ==
    IF c.wrap_label THEN wrap_text(label, a.width) ELSE <<label>>

\* VerticalLabelOp aligning the label line on the width of the glyph
VerticalLabelOpGlyphWidth(c, a, label_y, l) ==
    IF label_y < Add16(a.y, a.height)
    THEN LET x_offset == AlignOffset(c.horizontal_alignment, a.width,
                                     TextWidth(IF c.checked THEN c.checked_symbol
                                               ELSE c.unchecked_symbol) % U16)
         IN  <<PaintLine("label",
                         Rect(Add16(a.x, x_offset), label_y,
                              saturating_sub(a.width, x_offset), 1),
                         l)>>
    ELSE <<>>

\* one label line of render_vertical on row label_y, aligned on its own width
VerticalLabelOp(c, a, label_y, l) ==
    IF label_y < Add16(a.y, a.height)
    THEN LET x_offset == AlignOffset(c.horizontal_alignment, a.width, LineWidth(l) % U16)
         IN  <<PaintLine("label",
                         Rect(Add16(a.x, x_offset), label_y,
                              saturating_sub(a.width, x_offset), 1),
                         l)>>
    ELSE <<>>

\* VerticalGlyphOp with the glyph's width not clamped to the columns left
VerticalGlyphOpUnclamped(c, a, checkbox_y, checkbox_span) ==
    LET checkbox_width == TextWidth(checkbox_span.content) % U16
        x_offset == AlignOffset(c.horizontal_alignment, a.width, checkbox_width)
    IN  PaintLine("glyph",
                  Rect(Add16(a.x, x_offset), checkbox_y, checkbox_width, 1),
                  LineFrom(<<checkbox_span>>))

\* the glyph row of render_vertical on row checkbox_y, aligned on the glyph's width
VerticalGlyphOp(c, a, checkbox_y, checkbox_span) ==
    LET checkbox_width == TextWidth(checkbox_span.content) % U16
        x_offset == AlignOffset(c.horizontal_alignment, a.width, checkbox_width)
    IN  PaintLine("glyph",
                  Rect(Add16(a.x, x_offset), checkbox_y,
                       Min(checkbox_width, saturating_sub(a.width, x_offset)), 1),
                  LineFrom(<<checkbox_span>>))

\* VerticalTop painting the glyph on the last row when its row is below it
VerticalTopGlyphAlways(c, a, checkbox_span, label_lines, y_offset) ==
    LET label_height == Len(label_lines) % U16
        checkbox_y   == Min(Add16(Add16(a.y, y_offset), label_height),
                            a.y + a.height - 1)
    IN  Flatten([k \in 1..Len(label_lines) |->
                    VerticalLabelOp(c, a, Add16(Add16(a.y, y_offset), (k - 1) % U16),
                                    label_lines[k])])
        \o <<VerticalGlyphOp(c, a, checkbox_y, checkbox_span)>>

\* LabelPosition::Top: the label lines, then the glyph below them
VerticalTop(c, a, checkbox_span, label_lines, y_offset) ==
    LET label_height == Len(label_lines) % U16
        checkbox_y   == Add16(Add16(a.y, y_offset), label_height)
    IN  Flatten([k \in 1..Len(label_lines) |->
                    VerticalLabelOp(c, a, Add16(Add16(a.y, y_offset), (k - 1) % U16),
                                    label_lines[k])])
        \o IF checkbox_y < Add16(a.y, a.height)
           THEN <<VerticalGlyphOp(c, a, checkbox_y, checkbox_span)>>
           ELSE <<>>

\* LabelPosition::Bottom: the glyph, then the label lines below it
VerticalBottom(c, a, checkbox_span, label_lines, y_offset) ==
    <<VerticalGlyphOp(c, a, Add16(a.y, y_offset), checkbox_span)>>
    \o Flatten([k \in 1..Len(label_lines) |->
                   VerticalLabelOp(c, a,
                                   Add16(Add16(Add16(a.y, y_offset), 1), (k - 1) % U16),
                                   label_lines[k])])

\* render_vertical taking the number of label lines as the content height
render_vertical_label_height(c, a, checkbox_span, label) ==
    IF a.height = 0 \/ a.width = 0 THEN <<>>
    ELSE
    LET label_lines  == VerticalLines(c, a, label)
        label_height == Len(label_lines) % U16
        y_offset     == AlignOffset(c.vertical_alignment, a.height, label_height)
    IN  CASE c.label_position = "Top" ->
                VerticalTop(c, a, checkbox_span, label_lines, y_offset)
          [] c.label_position = "Bottom" ->
                VerticalBottom(c, a, checkbox_span, label_lines, y_offset)
          [] OTHER -> <<>>

render_vertical(c, a, checkbox_span, label) ==
    IF a.height = 0 \/ a.width = 0 THEN <<>>
    ELSE
    LET label_lines  == VerticalLines(c, a, label)
        label_height == Len(label_lines) % U16
        total_height == Add16(1, label_height)
        y_offset     == AlignOffset(c.vertical_alignment, a.height, total_height)
    IN  CASE c.label_position = "Top" ->
                VerticalTop(c, a, checkbox_span, label_lines, y_offset)
          [] c.label_position = "Bottom" ->
                VerticalBottom(c, a, checkbox_span, label_lines, y_offset)
          [] OTHER -> <<>>

\* Symbol with the two glyphs exchanged
SymbolInverted(c) == IF c.checked THEN c.unchecked_symbol ELSE c.checked_symbol

\* the glyph render_checkbox selects
Symbol(c) == IF c.checked THEN c.checked_symbol ELSE c.unchecked_symbol

\* WorkingWidth with the maximum applied before the minimum
WorkingWidthMaxFirst(c, a) ==
    LET w1 == IF c.max_width # None THEN Min(a.width, c.max_width[1]) ELSE a.width
        w2 == IF c.min_width # None THEN Max(w1, c.min_width[1]) ELSE w1
    IN  Min(w2, a.width)

\* WorkingWidth with max_width left out
WorkingWidthNoMax(c, a) ==
    LET w1 == IF c.min_width # None THEN Max(a.width, c.min_width[1]) ELSE a.width
    IN  Min(w1, a.width)

\* WorkingWidth without the final minimum with the width of the area
WorkingWidthUnclamped(c, a) ==
    LET w1 == IF c.min_width # None THEN Max(a.width, c.min_width[1]) ELSE a.width
    IN  IF c.max_width # None THEN Min(w1, c.max_width[1]) ELSE w1

\* WorkingWidth with min_width applied last and nothing after it
WorkingWidthMinLast(c, a) ==
    LET w1 == IF c.max_width # None THEN Min(a.width, c.max_width[1]) ELSE a.width
    IN  IF c.min_width # None THEN Max(w1, c.min_width[1]) ELSE w1

\* the width constraints of render_checkbox: the working width
WorkingWidth(c, a) ==
    LET w1 == IF c.min_width # None THEN Max(a.width, c.min_width[1]) ELSE a.width
        w2 == IF c.max_width # None THEN Min(w1, c.max_width[1]) ELSE w1
    IN  Min(w2, a.width)

\* render_area of render_checkbox
RenderArea(c, a) == [a EXCEPT !.width = WorkingWidth(c, a)]

\* CheckboxSpan styled with the base style alone
CheckboxSpanBaseOnly(c) == Span(Symbol(c), c.style)

\* the glyph span render_checkbox builds
CheckboxSpan(c) == Span(Symbol(c), Patch(c.style, c.checkbox_style))

\* the label render_checkbox hands to the layout: the label's Line patched
\* with the label style, then rebuilt from its spans alone
OwnedLabel(c) == OwnedLine(LinePatchStyle(c.label, Patch(c.style, c.label_style)))

render_checkbox(c, a) ==
    IF IsEmpty(a) THEN <<>>
    ELSE IF c.label_position \in {"Right", "Left"}
         THEN render_horizontal(c, RenderArea(c, a), CheckboxSpan(c), OwnedLabel(c))
         ELSE render_vertical(c, RenderArea(c, a), CheckboxSpan(c), OwnedLabel(c))

\* Inner with the frame's borders not taken off the area
InnerWholeArea(c, a) == a

\* the area render hands to render_checkbox
Inner(c, a) == IF c.block THEN BlockInner(a) ELSE a

\* render filling the area after the frame and the content
renderFillLast(c, a) ==
    (IF c.block THEN <<[op |-> "block", rect |-> a]>> ELSE <<>>)
    \o render_checkbox(c, Inner(c, a))
    \o <<[op |-> "set_style", rect |-> a, style |-> c.style]>>

\* impl Widget for &Checkbox: render
render(c, a) ==
    <<[op |-> "set_style", rect |-> a, style |-> c.style]>>
    \o (IF c.block THEN <<[op |-> "block", rect |-> a]>> ELSE <<>>)
    \o render_checkbox(c, Inner(c, a))

\* the render_area of the render_checkbox call of a render; render_checkbox
\* returns before it has one when its area is empty
LaidOutIn(c, a) ==
    IF IsEmpty(Inner(c, a)) THEN ZeroRect ELSE RenderArea(c, Inner(c, a))

--------------------------------------------------------------------------
(* The buffer: what the calls of a render leave in the cells.  Line::render *)
(* and Buffer::set_style are ratatui's; render and the two layout         *)
(* functions call them.                                                    *)

InRect(x, y, r) ==
    /\ r.x <= x /\ x < r.x + r.width
    /\ r.y <= y /\ y < r.y + r.height

\* the characters of a line, each with the style it is painted with
LineChars(l) ==
    Flatten([k \in 1..Len(l.spans) |->
                [j \in 1..Len(l.spans[k].content) |->
                    [symbol |-> l.spans[k].content[j],
                     style  |-> Patch(l.style, l.spans[k].style)]]])

RECURSIVE CharOffset(_, _)
\* the column, from the start of the line, of the character of index k
CharOffset(chars, k) ==
    IF k <= 1 THEN 0
    ELSE CharOffset(chars, k - 1) + CharWidth(chars[k - 1].symbol)

\* the characters Line::render paints into a rectangle: those that fit in
\* its width, from the left; nothing for an empty rectangle or an empty line
PaintedChars(op) ==
    IF op.op # "line" \/ IsEmpty(op.rect) \/ LineWidth(op.line) = 0 THEN {}
    ELSE LET chars == LineChars(op.line)
         IN  {k \in 1..Len(chars) :
                 CharOffset(chars, k) + CharWidth(chars[k].symbol) <= op.rect.width}

\* the cells a call paints a character into
PaintedCells(op) ==
    LET chars == LineChars(op.line)
    IN  {[x |-> op.rect.x + CharOffset(chars, k), y |-> op.rect.y,
          symbol |-> chars[k].symbol, style |-> chars[k].style] :
            k \in PaintedChars(op)}

\* the cells a call resets because a two-column character covers them
HiddenCells(op) ==
    LET chars == LineChars(op.line)
    IN  {[x |-> op.rect.x + CharOffset(chars, k) + 1, y |-> op.rect.y] :
            k \in {j \in PaintedChars(op) : CharWidth(chars[j].symbol) = 2}}

BlankCell == [symbol |-> " ", style |-> DefaultStyle]

\* the border a Block::bordered() draws: the outline of its area
OnBorder(x, y, r) ==
    /\ InRect(x, y, r)
    /\ \/ x = r.x \/ x = r.x + r.width - 1
       \/ y = r.y \/ y = r.y + r.height - 1

\* the effect of one call on the cell (x, y)
ApplyOp(cell, op, x, y) ==
    CASE op.op = "set_style" ->
            IF InRect(x, y, op.rect)
            THEN [cell EXCEPT !.style = Patch(@, op.style)] ELSE cell
      [] op.op = "block" ->
            IF OnBorder(x, y, op.rect) THEN [cell EXCEPT !.symbol = "#"] ELSE cell
      [] op.op = "line" ->
            IF ~InRect(x, y, op.rect) THEN cell
            ELSE IF \E c \in PaintedCells(op) : c.x = x /\ c.y = y
            THEN LET c == CHOOSE c \in PaintedCells(op) : c.x = x /\ c.y = y
                 IN  [symbol |-> c.symbol, style |-> Patch(cell.style, c.style)]
            ELSE IF [x |-> x, y |-> y] \in HiddenCells(op) THEN BlankCell
            ELSE cell

RECURSIVE CellAfter(_, _, _, _)
\* the cell (x, y) of an empty buffer after the first n calls of os
CellAfter(os, n, x, y) ==
    IF n = 0 THEN BlankCell
    ELSE ApplyOp(CellAfter(os, n - 1, x, y), os[n], x, y)

\* the cell (x, y) after a whole render
BufferCell(os, x, y) == CellAfter(os, Len(os), x, y)

IsLineOp(op) == op.op = "line"

\* the Line::render calls of a render, in order
LineOps(os) == SelectSeq(os, IsLineOp)

--------------------------------------------------------------------------
(* The inputs of the model *)

Chars == {"a", " ", "W"}

Texts == UNION {[1..n -> Chars] : n \in 0..MaxLabelLen}

\* the styles a run of a label carries
SpanStyles == {DefaultStyle, Fg("Red")}

\* labels of no run, of one run and of two runs
Labels ==
    {LineFrom(<<>>)}
    \cup {LineFrom(<<Span(t, s)>>) : t \in Texts, s \in SpanStyles}
    \cup UNION {{LineFrom(<<Span(SubSeq(t, 1, p), s1), Span(SubSeq(t, p + 1, Len(t)), s2)>>) :
                    p \in 0..Len(t), s1 \in SpanStyles, s2 \in SpanStyles} : t \in Texts}

--------------------------------------------------------------------------
(* The specification of wrap_text: an input is drawn, wrap_text is applied *)

\* the label "This is a very long label", one unstyled run
LongLabel ==
    LineFrom(<<Span(
    <<"T", "h", "i", "s", " ", "i", "s", " ", "a", " ", "v", "e", "r",
      "y", " ", "l", "o", "n", "g", " ", "l", "a", "b", "e", "l">>,
      DefaultStyle)>>)

InitWrap ==
    /\ line \in Labels \cup {LongLabel}
    /\ max_width \in (0..MaxWidth) \cup {10}
    /\ lines = <<>>
    /\ pc = "input"
    /\ cb = Default
    /\ area = ZeroRect
    /\ ops = <<>>
    /\ calls = 0
    /\ render_area = ZeroRect
    /\ passed = Unset

WrapText ==
    /\ pc = "input"
    /\ lines' = wrap_text(line, max_width)
    /\ pc' = "wrapped"
    /\ UNCHANGED <<cb, area, ops, line, max_width, calls, render_area, passed>>

NextWrap == WrapText

SpecWrap == InitWrap /\ [][NextWrap]_vars

--------------------------------------------------------------------------
(* The specification of the layout: a widget and an area are drawn, the    *)
(* widget is rendered into the area                                        *)

Positions == {"Right", "Left", "Top", "Bottom"}

HorizontalAlignments == {"Left", "Center", "Right"}

VerticalAlignments == {"Top", "Center", "Bottom"}

\* words of one-column characters separated by single spaces
LayoutTexts ==
    {t \in UNION {[1..n -> {"a", " "}] : n \in 0..(MaxLabelLen - 1)} :
        /\ t # <<>> => (t[1] # " " /\ t[Len(t)] # " ")
        /\ \A k \in 1..(Len(t) - 1) : ~(t[k] = " " /\ t[k + 1] = " ")}

\* the labels of the layout: of no run, and of one unstyled run
LayoutLabels ==
    {LineFrom(<<>>)} \cup {LineFrom(<<Span(t, DefaultStyle)>>) : t \in LayoutTexts}

\* the glyph pairs (checked, unchecked) of the layout
LayoutSymbols == {<<CHECKED, UNCHECKED>>, <<CHECKED_X, <<>>>>}

LayoutAreas ==
    {Rect(2, 1, w, h) : w \in 0..MaxWidth, h \in 0..MaxHeight}

InitLayout ==
    /\ \E l \in LayoutLabels, ch \in BOOLEAN, sy \in LayoutSymbols,
          lp \in Positions, ha \in HorizontalAlignments, va \in VerticalAlignments,
          mx \in {None, Some(MaxWidth - 3)}, wr \in BOOLEAN :
            cb = [Default EXCEPT !.label = l, !.checked = ch,
                                 !.checked_symbol = sy[1], !.unchecked_symbol = sy[2],
                                 !.label_position = lp,
                                 !.horizontal_alignment = ha,
                                 !.vertical_alignment = va,
                                 !.max_width = mx, !.wrap_label = wr]
    /\ area \in LayoutAreas
    /\ ops = <<>>
    /\ pc = "build"
    /\ calls = 0
    /\ line = LineFrom(<<>>)
    /\ max_width = 0
    /\ lines = <<>>
    /\ render_area = ZeroRect
    /\ passed = Unset

\* Widget::render(&checkbox, area, buf)
Render ==
    /\ pc = "build"
    /\ ops' = render(cb, area)
    /\ render_area' = LaidOutIn(cb, area)
    /\ pc' = "rendered"
    /\ UNCHANGED <<cb, area, line, max_width, lines, calls, passed>>

NextLayout == Render

SpecLayout == InitLayout /\ [][NextLayout]_vars

--------------------------------------------------------------------------
(* The specification of the widget: a Checkbox is constructed, builder     *)
(* methods are called on it, and it is rendered into an area               *)

\* the labels, styles, glyphs and widths the builder is called with
BuilderLabels ==
    {LineFrom(<<Span(<<"a", "a">>, DefaultStyle)>>),
     LineFrom(<<Span(<<"a", "a", " ", "a", "a", "a">>, Fg("Red"))>>)}

BuilderStyles == {Fg("White"), [Fg("Blue") EXCEPT !.bg = "Black"]}

BuilderSymbols == {CHECKED_X, UNCHECKED_SPACE, <<>>}

BuilderMinWidths == {20, 30}

BuilderMaxWidths == {0, 5, 40}

BuilderAreas ==
    {Rect(0, 0, 0, 0), Rect(0, 0, 10, 1), Rect(0, 0, 12, 3), Rect(3, 2, 2, 2),
     Rect(0, 0, 10, 0), Rect(1, 1, 0, 3)}

Init ==
    /\ \/ cb = Default /\ passed = Unset
       \/ \E l \in BuilderLabels, ch \in BOOLEAN :
             /\ cb = New(l, ch)
             /\ passed = [Unset EXCEPT !.label = <<l>>, !.checked = <<ch>>]
    /\ area = ZeroRect
    /\ ops = <<>>
    /\ pc = "build"
    /\ calls = 0
    /\ line = LineFrom(<<>>)
    /\ max_width = 0
    /\ lines = <<>>
    /\ render_area = ZeroRect

\* Setter assigning a style to the three style fields at once
SetterAllStyles(c, field, value) ==
    IF field = "style"
    THEN [c EXCEPT !.style = value, !.checkbox_style = value, !.label_style = value]
    ELSE [c EXCEPT ![field] = value]

\* the body of a builder method: one field assigned, self returned
Setter(c, field, value) == [c EXCEPT ![field] = value]

\* a builder method: it moves the value and returns it with one field set
Set(field, value) ==
    /\ pc = "build"
    /\ calls < MaxCalls
    /\ cb' = Setter(cb, field, value)
    /\ passed' = [passed EXCEPT ![field] = <<value>>]
    /\ calls' = calls + 1
    /\ UNCHANGED <<area, ops, pc, line, max_width, lines, render_area>>

SetLabel == \E l \in BuilderLabels : Set("label", l)

SetChecked == \E ch \in BOOLEAN : Set("checked", ch)

SetBlock == Set("block", TRUE)

SetStyle == \E st \in BuilderStyles : Set("style", st)

SetCheckboxStyle == \E st \in BuilderStyles : Set("checkbox_style", st)

SetLabelStyle == \E st \in BuilderStyles : Set("label_style", st)

SetCheckedSymbol == \E sy \in BuilderSymbols : Set("checked_symbol", sy)

SetUncheckedSymbol == \E sy \in BuilderSymbols : Set("unchecked_symbol", sy)

SetLabelPosition == \E lp \in Positions : Set("label_position", lp)

SetHorizontalAlignment == \E ha \in HorizontalAlignments : Set("horizontal_alignment", ha)

SetVerticalAlignment == \E va \in VerticalAlignments : Set("vertical_alignment", va)

SetMinWidth == \E w \in BuilderMinWidths : Set("min_width", Some(w))

SetMaxWidth == \E w \in BuilderMaxWidths : Set("max_width", Some(w))

SetWrapLabel == \E wr \in BOOLEAN : Set("wrap_label", wr)

\* Styled::set_style
StyledSetStyle == \E st \in BuilderStyles : Set("style", st)

\* Widget::render(checkbox, area, buf) for an area of the caller's choice
RenderInto ==
    /\ pc = "build"
    /\ area' \in BuilderAreas
    /\ ops' = render(cb, area')
    /\ render_area' = LaidOutIn(cb, area')
    /\ pc' = "rendered"
    /\ UNCHANGED <<cb, line, max_width, lines, calls, passed>>

Next ==
    \/ SetLabel
    \/ SetChecked
    \/ SetBlock
    \/ SetStyle
    \/ SetCheckboxStyle
    \/ SetLabelStyle
    \/ SetCheckedSymbol
    \/ SetUncheckedSymbol
    \/ SetLabelPosition
    \/ SetHorizontalAlignment
    \/ SetVerticalAlignment
    \/ SetMinWidth
    \/ SetMaxWidth
    \/ SetWrapLabel
    \/ StyledSetStyle
    \/ RenderInto

Spec == Init /\ [][Next]_vars

--------------------------------------------------------------------------
(* The u16 additions of a render, with their results as integers.  A sum   *)
(* of 65536 or more overflows: the build with overflow checks panics       *)
(* there, the build without them goes on with the sum modulo 65536.        *)

\* the additions of render_horizontal
HorizontalSums(c, a, checkbox_width, label_lines) ==
    LET n       == Len(label_lines)
        maxw    == MaxOf(LineWidths(label_lines))
        total   == checkbox_width + 1 + maxw
        x_off   == AlignOffset(c.horizontal_alignment, a.width, total)
        y_off   == AlignOffset(c.vertical_alignment, a.height, n)
        beside  == IF c.wrap_label THEN {checkbox_width + 1} ELSE {}
        rows    == UNION {{a.y + y_off + i, a.y + a.height} : i \in 0..(n - 1)}
        right   == IF x_off < a.width /\ y_off < a.height
                   THEN {a.x + x_off, a.y + y_off,
                         a.x + x_off + checkbox_width,
                         a.x + x_off + checkbox_width + 1,
                         a.x + a.width,
                         x_off + checkbox_width, x_off + checkbox_width + 1}
                        \cup rows
                   ELSE {}
        left    == {a.x + x_off, a.x + x_off + maxw, a.x + x_off + maxw + 1,
                    a.x + a.width, a.y + y_off,
                    x_off + maxw, x_off + maxw + 1}
                   \cup rows
    IN  beside \cup {checkbox_width + 1, total}
        \cup (IF c.label_position = "Right" THEN right ELSE left)

\* the additions of render_vertical
VerticalSums(c, a, checkbox_width, label_lines) ==
    LET n     == Len(label_lines)
        y_off == AlignOffset(c.vertical_alignment, a.height, 1 + n)
        gx    == AlignOffset(c.horizontal_alignment, a.width, checkbox_width)
        first == IF c.label_position = "Top" THEN 0 ELSE 1
        rows  == UNION {{a.y + y_off, a.y + y_off + first + i, a.y + a.height,
                         a.x + AlignOffset(c.horizontal_alignment, a.width,
                                           LineWidth(label_lines[i + 1]))} :
                           i \in 0..(n - 1)}
    IN  {1 + n, a.x + gx, a.y + y_off, a.y + a.height} \cup rows
        \cup (IF c.label_position = "Top" THEN {a.y + y_off + n} ELSE {a.y + y_off + 1})

\* the additions of a render: those of the layout function render_checkbox
\* dispatches to; none when the inner area is empty
RenderSums(c, a) ==
    LET inner == Inner(c, a)
        ra    == RenderArea(c, inner)
        checkbox_width == TextWidth(Symbol(c))
    IN  IF IsEmpty(inner) \/ ra.width = 0 THEN {}
        ELSE IF c.label_position \in {"Right", "Left"}
             THEN HorizontalSums(c, ra, checkbox_width,
                                 HorizontalLines(c, ra, checkbox_width, OwnedLabel(c)))
             ELSE VerticalSums(c, ra, checkbox_width,
                               VerticalLines(c, ra, OwnedLabel(c)))

\* some addition of the render overflows
Overflows(c, a) == \E sum \in RenderSums(c, a) : sum >= U16

--------------------------------------------------------------------------
(* The specification of renders at the edge of the coordinate space: the   *)
(* area ends on or next to the last column and row a u16 can address       *)

EdgeLabels ==
    {LineFrom(<<>>),
     LineFrom(<<Span(<<"a">>, DefaultStyle)>>),
     LineFrom(<<Span(<<"a", " ", "a", " ", "a">>, DefaultStyle)>>)}

\* areas with x + width <= 65535 and y + height <= 65535
EdgeAreas ==
    {Rect(U16 - 1 - w - dx, U16 - 1 - h - dy, w, h) :
        w \in 1..3, h \in 1..2, dx \in 0..1, dy \in 0..1}

InitEdge ==
    /\ \E l \in EdgeLabels, lp \in Positions, ha \in HorizontalAlignments,
          va \in VerticalAlignments, wr \in BOOLEAN :
            cb = [Default EXCEPT !.label = l, !.label_position = lp,
                                 !.horizontal_alignment = ha,
                                 !.vertical_alignment = va, !.wrap_label = wr]
    /\ area \in EdgeAreas
    /\ ops = <<>>
    /\ pc = "build"
    /\ calls = 0
    /\ line = LineFrom(<<>>)
    /\ max_width = 0
    /\ lines = <<>>
    /\ render_area = ZeroRect
    /\ passed = Unset

\* Widget::render(&checkbox, area, buf) where no addition overflows, and in
\* the build without overflow checks where one does
RenderEdge ==
    /\ pc = "build"
    /\ ops' = render(cb, area)
    /\ render_area' = LaidOutIn(cb, area)
    /\ pc' = "rendered"
    /\ UNCHANGED <<cb, area, line, max_width, lines, calls, passed>>

\* Widget::render(&checkbox, area, buf) in the build with overflow checks
\* where an addition overflows: the render panics, some of its calls made
PanicEdge ==
    /\ pc = "build"
    /\ Overflows(cb, area)
    /\ \E k \in 1..Len(render(cb, area)) : ops' = SubSeq(render(cb, area), 1, k)
    /\ render_area' = LaidOutIn(cb, area)
    /\ pc' = "panicked"
    /\ UNCHANGED <<cb, area, line, max_width, lines, calls, passed>>

NextEdge == RenderEdge \/ PanicEdge

SpecEdge == InitEdge /\ [][NextEdge]_vars

--------------------------------------------------------------------------
(* Vocabulary of the claims about wrap_text *)

\* every span of every line, in order
RECURSIVE AllSpans(_)
AllSpans(ls) == IF ls = <<>> THEN <<>> ELSE Head(ls).spans \o AllSpans(Tail(ls))

\* a separator is the one-space span wrap_text puts before a word; a word
\* holds no space, so no word is a separator
IsSeparator(sp) == sp.content = <<" ">>

IsWordSpan(sp) == ~IsSeparator(sp)

Contents(spans) == [k \in 1..Len(spans) |-> spans[k].content]

\* the words of a line handed to wrap_text: the pieces of each run, in order
RECURSIVE InputWords(_)
InputWords(spans) ==
    IF spans = <<>> THEN <<>>
    ELSE Split(Head(spans).content) \o InputWords(Tail(spans))

\* the words wrap_text put on one output line
WordsOn(l) == Contents(SelectSeq(l.spans, IsWordSpan))

\* the line holds exactly one word, and that word is wider than the target
SingleWideWord(l, mw) ==
    LET ws == SelectSeq(WordsOn(l), LAMBDA w : w # <<>>)
    IN  Len(ws) = 1 /\ TextWidth(ws[1]) > mw

Wrapped == pc = "wrapped"

--------------------------------------------------------------------------
(* C1: for a non-empty label and maxWidth >= 1, every line wrap_text       *)
(* returns is at most maxWidth columns wide, unless the line is a single   *)
(* word that is itself wider than maxWidth.                                *)
C1_LinesFit ==
    (Wrapped /\ line.spans # <<>> /\ max_width >= 1) =>
        \A k \in 1..Len(lines) :
            LineWidth(lines[k]) <= max_width \/ SingleWideWord(lines[k], max_width)

(* C4: a label whose total width is <= maxWidth (maxWidth >= 1), of one or *)
(* several runs, wraps to exactly one line whose text is the input's text. *)
C4_ShortInputOneLine ==
    (Wrapped /\ max_width >= 1 /\ LineWidth(line) <= max_width) =>
        (Len(lines) = 1 /\ LineText(lines[1]) = LineText(line))

--------------------------------------------------------------------------
(* Vocabulary of the claims about render *)

Rendered == pc = "rendered"

\* the width of the glyph the checked flag selects
GlyphWidth == TextWidth(IF cb.checked THEN cb.checked_symbol ELSE cb.unchecked_symbol)

\* the area left for the checkbox inside a frame: one cell off each side
InnerArea ==
    IF cb.block
    THEN Rect(IF area.width = 0 THEN area.x ELSE area.x + 1,
              IF area.height = 0 THEN area.y ELSE area.y + 1,
              IF area.width > 2 THEN area.width - 2 ELSE 0,
              IF area.height > 2 THEN area.height - 2 ELSE 0)
    ELSE area

\* the working rectangle: the inner area, no wider than maxWidth
WorkingRect ==
    [InnerArea EXCEPT !.width = IF cb.max_width = None THEN @
                                 ELSE Min(@, cb.max_width[1])]

RectInside(r, outer) ==
    /\ outer.x <= r.x /\ r.x + r.width <= outer.x + outer.width
    /\ outer.y <= r.y /\ r.y + r.height <= outer.y + outer.height

--------------------------------------------------------------------------
(* C2: every rectangle render paints (the glyph, each label line) is one   *)
(* row high and lies inside the working rectangle, itself inside the area  *)
(* handed to render, and so does every cell painted; what would start      *)
(* outside is not painted.                                                 *)
C2_PaintInsideArea ==
    Rendered =>
        /\ RectInside(WorkingRect, area)
        /\ \A k \in 1..Len(ops) :
              IsLineOp(ops[k]) =>
                  /\ ops[k].rect.height = 1
                  /\ RectInside(ops[k].rect, WorkingRect)
                  /\ \A c \in PaintedCells(ops[k]) : InRect(c.x, c.y, WorkingRect)
                  /\ \A c \in HiddenCells(ops[k]) : InRect(c.x, c.y, WorkingRect)

\* a render that clipped the glyph to the area and skipped a label line
C2_Witness ==
    /\ Rendered /\ ~IsEmpty(area)
    /\ \E k \in 1..Len(ops) :
          /\ IsLineOp(ops[k]) /\ ops[k].what = "glyph"
          /\ 0 < ops[k].rect.width /\ ops[k].rect.width < GlyphWidth
    /\ \A k \in 1..Len(ops) : IsLineOp(ops[k]) => ops[k].what = "glyph"
    /\ LineWidth(cb.label) > 0

(* C3: into an area of width 0 or height 0, and into an area whose inside  *)
(* a frame leaves empty, render paints no glyph and no label line.         *)
C3_EmptyAreaNoPaint ==
    (Rendered /\ (area.width = 0 \/ area.height = 0
                  \/ (cb.block /\ (area.width <= 2 \/ area.height <= 2)))) =>
        /\ LineOps(ops) = <<>>
        /\ \A k \in 1..Len(ops) : ops[k].op \in {"set_style", "block"}

\* a framed widget with a label was rendered into an area the frame fills
C3_Witness ==
    /\ Rendered /\ cb.block /\ area.width = 2 /\ area.height = 2
    /\ LineWidth(cb.label) > 0
    /\ LineOps(ops) = <<>>

--------------------------------------------------------------------------
(* Vocabulary of the claims about the layout *)

\* the label lines of the render: the wrapped label, or the label alone
LabelLines ==
    IF ~cb.wrap_label THEN <<OwnedLine(cb.label)>>
    ELSE IF cb.label_position \in {"Right", "Left"}
         THEN wrap_text(OwnedLine(cb.label),
                        IF WorkingRect.width > GlyphWidth + 1
                        THEN WorkingRect.width - GlyphWidth - 1 ELSE 0)
         ELSE wrap_text(OwnedLine(cb.label), WorkingRect.width)

\* the width of the widest label line
MaxLabelWidth ==
    LET ws == {LineWidth(LabelLines[k]) : k \in 1..Len(LabelLines)}
    IN  CHOOSE w \in ws : \A v \in ws : v <= w

\* the three-way rule on `available - content`, saturating at 0
ThreeWay(alignment, available, content) ==
    LET room == IF available > content THEN available - content ELSE 0
    IN  CASE alignment \in {"Left", "Top"}     -> 0
          [] alignment = "Center"              -> room \div 2
          [] alignment \in {"Right", "Bottom"} -> room

GlyphOps == SelectSeq(ops, LAMBDA op : IsLineOp(op) /\ op.what = "glyph")

LabelOps == SelectSeq(ops, LAMBDA op : IsLineOp(op) /\ op.what = "label")

\* the characters in the cells of row y of the area after the render
RowText(y) == [i \in 1..area.width |-> BufferCell(ops, area.x + i - 1, y).symbol]

\* the cells some Line::render call of the render painted a character into
AllPaintedCells ==
    UNION {PaintedCells(ops[k]) : k \in {j \in 1..Len(ops) : IsLineOp(ops[j])}}

\* the columns of row y that were painted
PaintedColumns(y) == {c.x : c \in {d \in AllPaintedCells : d.y = y}}

\* the label "aa" with the glyph "[X]", unwrapped and unbounded, Left/Top
\* aligned, in an area one column wider than glyph, gap and label
Scenario(position) ==
    /\ cb.label_position = position
    /\ cb.horizontal_alignment = "Left" /\ cb.vertical_alignment = "Top"
    /\ LineText(cb.label) = <<"a", "a">>
    /\ cb.checked /\ cb.checked_symbol = CHECKED_X
    /\ cb.max_width = None /\ ~cb.wrap_label /\ ~cb.block
    /\ area.width = 7 /\ area.height = 1

--------------------------------------------------------------------------
(* C6: with the label on the Right and Left/Top alignment the glyph is     *)
(* painted in a one-row rectangle at the first column and row of the area, *)
(* and label line i at column area.x + glyph width + 1 on row area.y + i,  *)
(* for every line whose row and column are inside the working rectangle.   *)
(* "aa" with "[X]" in a 7x1 area reads "[X] aa" and the last column is     *)
(* not painted.                                                            *)
C6_LabelRight ==
    (Rendered /\ ~IsEmpty(InnerArea) /\ cb.label_position = "Right"
     /\ cb.horizontal_alignment = "Left" /\ cb.vertical_alignment = "Top") =>
        LET a == WorkingRect
            shown == IF GlyphWidth + 1 < a.width
                     THEN Min(Len(LabelLines), a.height) ELSE 0
        IN  /\ Len(GlyphOps) = 1
            /\ GlyphOps[1].rect = Rect(a.x, a.y, Min(GlyphWidth, a.width), 1)
            /\ LineOps(ops)[1] = GlyphOps[1]
            /\ Len(LabelOps) = shown
            /\ \A i \in 0..(shown - 1) :
                  /\ LabelOps[i + 1].rect.x = a.x + GlyphWidth + 1
                  /\ LabelOps[i + 1].rect.y = a.y + i
                  /\ LabelOps[i + 1].rect.height = 1
                  /\ LabelOps[i + 1].line = LabelLines[i + 1]
            /\ Scenario("Right") =>
                  /\ RowText(area.y) = <<"[", "X", "]", " ", "a", "a", " ">>
                  /\ PaintedColumns(area.y)
                        = {area.x + d : d \in {0, 1, 2, 4, 5}}

\* the scenario of the claim was rendered
C6_Witness == Rendered /\ Scenario("Right") /\ Len(LabelOps) = 1

(* C7: with the label on the Left each label line is painted at column     *)
(* offset_x, one per row from offset_y, and the glyph at column            *)
(* offset_x + max_label_width + 1 on row offset_y, whenever these start    *)
(* inside the working rectangle.  "aa" with "[X]" in a 7x1 area reads      *)
(* "aa [X]": the label at column 0, the glyph at column 3.                 *)
C7_LabelLeft ==
    (Rendered /\ ~IsEmpty(InnerArea) /\ cb.label_position = "Left") =>
        LET a == WorkingRect
            total == GlyphWidth + 1 + MaxLabelWidth
            offset_x == ThreeWay(cb.horizontal_alignment, a.width, total)
            offset_y == ThreeWay(cb.vertical_alignment, a.height, Len(LabelLines))
            shown == IF offset_x < a.width
                     THEN Min(Len(LabelLines), a.height - offset_y) ELSE 0
            glyph_shown == offset_x + MaxLabelWidth + 1 < a.width /\ offset_y < a.height
        IN  /\ Len(LabelOps) = shown
            /\ \A i \in 0..(shown - 1) :
                  /\ LabelOps[i + 1].rect.x = a.x + offset_x
                  /\ LabelOps[i + 1].rect.y = a.y + offset_y + i
                  /\ LabelOps[i + 1].rect.height = 1
                  /\ LabelOps[i + 1].line = LabelLines[i + 1]
            /\ Len(GlyphOps) = IF glyph_shown THEN 1 ELSE 0
            /\ glyph_shown =>
                  /\ GlyphOps[1].rect.x = a.x + offset_x + MaxLabelWidth + 1
                  /\ GlyphOps[1].rect.y = a.y + offset_y
                  /\ GlyphOps[1].rect.height = 1
            /\ Scenario("Left") =>
                  /\ RowText(area.y) = <<"a", "a", " ", "[", "X", "]", " ">>
                  /\ LabelOps[1].rect.x = area.x
                  /\ GlyphOps[1].rect.x = area.x + 3

\* the scenario of the claim was rendered
C7_Witness == Rendered /\ Scenario("Left") /\ Len(GlyphOps) = 1

--------------------------------------------------------------------------
(* Vocabulary of the claim about right alignment *)

\* the total content width: glyph, gap and widest label line side by side
\* (label Right or Left); the widest row (label Top or Bottom)
ContentWidth ==
    IF cb.label_position \in {"Right", "Left"}
    THEN GlyphWidth + 1 + MaxLabelWidth
    ELSE Max(GlyphWidth, MaxLabelWidth)

\* the rows the content needs: the label lines, and the glyph's own row
\* when the label is above or below it
ContentHeight ==
    IF cb.label_position \in {"Right", "Left"}
    THEN Len(LabelLines) ELSE Len(LabelLines) + 1

\* the columns a character of the render occupies: the cell it is painted
\* into and, for a two-column character, the cell it covers
OccupiedColumns ==
    {d.x : d \in AllPaintedCells}
    \cup {d.x : d \in UNION {HiddenCells(ops[k]) :
                                k \in {j \in 1..Len(ops) : IsLineOp(ops[j])}}}

\* the rightmost column of the render is column c
RightmostPainted(c) == c \in OccupiedColumns /\ \A x \in OccupiedColumns : x <= c

(* C8 as stated: under horizontal alignment Right, whatever the label      *)
(* position, when the total content width is <= area.width the rightmost   *)
(* column painted is area.x + area.width - 1.                              *)
C8_Original ==
    (Rendered /\ ~IsEmpty(InnerArea) /\ cb.horizontal_alignment = "Right"
     /\ ContentWidth <= area.width) =>
        RightmostPainted(area.x + area.width - 1)

(* C8 amended: under horizontal alignment Right, whatever the label        *)
(* position, when the glyph and the widest label line are at least one     *)
(* column wide, the total content width is <= the working width and the    *)
(* area has a row for every label line (and for the glyph above or below   *)
(* them), the rightmost column painted is the last column of the working   *)
(* rectangle.                                                              *)
C8_RightAligned ==
    (Rendered /\ ~IsEmpty(InnerArea) /\ cb.horizontal_alignment = "Right"
     /\ GlyphWidth >= 1 /\ MaxLabelWidth >= 1
     /\ ContentWidth <= WorkingRect.width
     /\ ContentHeight <= WorkingRect.height) =>
        RightmostPainted(WorkingRect.x + WorkingRect.width - 1)

\* a right-aligned render that left columns free on the left
C8_Witness ==
    /\ Rendered /\ cb.horizontal_alignment = "Right"
    /\ GlyphWidth >= 1 /\ MaxLabelWidth >= 1
    /\ ContentWidth < WorkingRect.width
    /\ ContentHeight <= WorkingRect.height
    /\ cb.max_width # None /\ WorkingRect.width < area.width
    /\ Len(LabelOps) = 1 /\ Len(GlyphOps) = 1

--------------------------------------------------------------------------
(* Vocabulary of the claims about styles and width bounds *)

\* no run of the label carries a style of its own
LabelUnstyled ==
    \A k \in 1..Len(cb.label.spans) : cb.label.spans[k].style = DefaultStyle

\* the cells the label lines were painted into
LabelCells ==
    UNION {PaintedCells(ops[k]) :
              k \in {j \in 1..Len(ops) : IsLineOp(ops[j]) /\ ops[j].what = "label"}}

\* the effective style: each attribute the override sets replaces the base's
Effective(base, override) ==
    [fg |-> IF override.fg = NoColor THEN base.fg ELSE override.fg,
     bg |-> IF override.bg = NoColor THEN base.bg ELSE override.bg,
     add_modifier |-> (base.add_modifier \ override.sub_modifier)
                          \cup override.add_modifier,
     sub_modifier |-> (base.sub_modifier \ override.add_modifier)
                          \cup override.sub_modifier]

(* C9: when the runs of the label carry no style of their own, every       *)
(* painted label cell carries the effective label style: the base style    *)
(* with each attribute set in the label-style override replacing the       *)
(* base's (base fg White, label_style fg Blue: the label is Blue).         *)
C9_LabelCellsEffectiveStyle ==
    (Rendered /\ LabelUnstyled) =>
        \A c \in LabelCells :
            BufferCell(ops, c.x, c.y).style = Effective(cb.style, cb.label_style)

(* C10 as stated: the working width is the inner width, then the minimum   *)
(* with maxWidth if set, then the maximum with minWidth if set, then the   *)
(* minimum with the inner width (max applied before min).                  *)
C10_Original ==
    (Rendered /\ ~IsEmpty(InnerArea)) =>
        LET w0 == InnerArea.width
            w1 == IF cb.max_width # None THEN Min(w0, cb.max_width[1]) ELSE w0
            w2 == IF cb.min_width # None THEN Max(w1, cb.min_width[1]) ELSE w1
        IN  render_area.width = Min(w2, w0)

(* C10 amended: the working width is the inner width, then the maximum     *)
(* with minWidth if set, then the minimum with maxWidth if set, then the   *)
(* minimum with the inner width (min applied before max).                  *)
C10_WorkingWidthOrder ==
    (Rendered /\ ~IsEmpty(InnerArea)) =>
        LET w0 == InnerArea.width
            w1 == IF cb.min_width # None THEN Max(w0, cb.min_width[1]) ELSE w0
            w2 == IF cb.max_width # None THEN Min(w1, cb.max_width[1]) ELSE w1
        IN  /\ render_area.width = Min(w2, w0)
            /\ render_area.x = InnerArea.x /\ render_area.y = InnerArea.y
            /\ render_area.height = InnerArea.height

\* a widget with minWidth > maxWidth, maxWidth below the inner width, rendered
C10_Witness ==
    /\ Rendered /\ ~IsEmpty(InnerArea)
    /\ cb.min_width # None /\ cb.max_width # None
    /\ cb.min_width[1] > cb.max_width[1]
    /\ cb.max_width[1] < InnerArea.width
    /\ render_area.width = cb.max_width[1]

(* C11: when minWidth and maxWidth are both set, minWidth > maxWidth and  *)
(* maxWidth <= inner width, the working width is maxWidth; inner width 10, *)
(* minWidth 20, maxWidth 5 gives working width 5.                          *)
C11_MinAboveMax ==
    (Rendered /\ ~IsEmpty(InnerArea)
     /\ cb.min_width # None /\ cb.max_width # None
     /\ cb.min_width[1] > cb.max_width[1]
     /\ cb.max_width[1] <= InnerArea.width) =>
        /\ render_area.width = cb.max_width[1]
        /\ (InnerArea.width = 10 /\ cb.min_width = Some(20) /\ cb.max_width = Some(5))
              => render_area.width = 5

\* inner width 10, minWidth 20, maxWidth 5 was rendered
C11_Witness ==
    /\ Rendered /\ InnerArea.width = 10 /\ InnerArea.height = 1
    /\ cb.min_width = Some(20) /\ cb.max_width = Some(5)
    /\ render_area.width = 5 /\ LineOps(ops) # <<>>

(* C12: whatever minWidth and maxWidth are, the working width never        *)
(* exceeds the width of the area handed to render (nor that of the inner   *)
(* area), and no rectangle painted reaches past it; minWidth 30 in a       *)
(* 10-column area gives working width 10.                                  *)
C12_WidthWithinArea ==
    Rendered =>
        /\ render_area.width <= InnerArea.width
        /\ render_area.width <= area.width
        /\ \A k \in 1..Len(ops) :
              IsLineOp(ops[k]) =>
                  ops[k].rect.x + ops[k].rect.width <= area.x + area.width
        /\ (~IsEmpty(InnerArea) /\ InnerArea.width = 10
             /\ cb.min_width = Some(30) /\ cb.max_width = None)
              => render_area.width = 10

\* minWidth 30 was rendered into a 10-column area
C12_Witness ==
    /\ Rendered /\ area.width = 10 /\ area.height = 1 /\ ~cb.block
    /\ cb.min_width = Some(30) /\ cb.max_width = None
    /\ render_area.width = 10 /\ LineOps(ops) # <<>>

(* C13: wrap_text with maxWidth 0 returns exactly one line, whose runs    *)
(* are the runs of the input, text and style unchanged, for an input of no *)
(* run, of one run and of several runs; it never returns no line.          *)
C13_ZeroWidthOneLine ==
    (Wrapped /\ max_width = 0) =>
        /\ Len(lines) = 1
        /\ lines[1].spans = line.spans
        /\ \A k \in 1..Len(line.spans) :
              /\ lines[1].spans[k].content = line.spans[k].content
              /\ lines[1].spans[k].style = line.spans[k].style

\* a label of two runs of different styles, with a space, wrapped to width 0
C13_Witness ==
    /\ Wrapped /\ max_width = 0
    /\ Len(line.spans) = 2
    /\ line.spans[1].style # line.spans[2].style
    /\ \E k \in 1..Len(LineText(line)) : LineText(line)[k] = " "
    /\ Len(LineText(line)) >= 3
    /\ Len(lines) = 1

--------------------------------------------------------------------------
(* Vocabulary of the claims about the glyph *)

\* the glyph the claims expect: the checked one exactly when checked is set
ExpectedGlyph == IF cb.checked THEN cb.checked_symbol ELSE cb.unchecked_symbol

\* the other glyph
OtherGlyph == IF cb.checked THEN cb.unchecked_symbol ELSE cb.checked_symbol

\* the cells the glyph was painted into
GlyphCells ==
    UNION {PaintedCells(ops[k]) :
              k \in {j \in 1..Len(ops) : IsLineOp(ops[j]) /\ ops[j].what = "glyph"}}

(* C14: render paints the checked glyph exactly when checked is true and   *)
(* the unchecked glyph otherwise, for the default glyphs and for custom    *)
(* ones: the one glyph line it paints holds the glyph of the flag, never   *)
(* the other one, and the cells painted show that glyph from its first     *)
(* character on.                                                           *)
C14_GlyphByChecked ==
    Rendered =>
        /\ Len(GlyphOps) <= 1
        /\ \A k \in 1..Len(GlyphOps) :
              LET op == GlyphOps[k]
              IN  /\ Len(op.line.spans) = 1
                  /\ op.line.spans[1].content = ExpectedGlyph
                  /\ ExpectedGlyph # OtherGlyph => op.line.spans[1].content # OtherGlyph
                  /\ \A c \in PaintedCells(op) :
                        /\ c.x - op.rect.x + 1 \in 1..Len(ExpectedGlyph)
                        /\ c.symbol = ExpectedGlyph[c.x - op.rect.x + 1]
                        /\ BufferCell(ops, c.x, c.y).symbol = c.symbol
        /\ (area = Rect(0, 0, 10, 1) /\ ~cb.block /\ calls = 0 /\ cb # Default) =>
              BufferCell(ops, 0, 0).symbol = IF cb.checked THEN CHECKED[1] ELSE UNCHECKED[1]

\* a checked widget with the glyphs "[X]" and "[ ]" was rendered: "X" shows
C14_Witness ==
    /\ Rendered /\ cb.checked
    /\ cb.checked_symbol = CHECKED_X /\ cb.unchecked_symbol = UNCHECKED_SPACE
    /\ area = Rect(0, 0, 10, 1)
    /\ Len(GlyphOps) = 1
    /\ BufferCell(ops, 1, 0).symbol = "X"

--------------------------------------------------------------------------
(* Vocabulary of the claims about the constructors and the setters *)

GlyphFields == {"checked_symbol", "unchecked_symbol"}

\* the default widget as the claims describe it
StatedDefault ==
    [label                |-> LineFrom(<<>>),
     checked              |-> FALSE,
     block                |-> FALSE,
     style                |-> DefaultStyle,
     checkbox_style       |-> DefaultStyle,
     label_style          |-> DefaultStyle,
     checked_symbol       |-> CHECKED,
     unchecked_symbol     |-> UNCHECKED,
     label_position       |-> "Right",
     horizontal_alignment |-> "Left",
     vertical_alignment   |-> "Top",
     min_width            |-> None,
     max_width            |-> None,
     wrap_label           |-> FALSE]

\* the setter calls of the model: a field and the value passed for it
SetterCalls ==
    {<<"label", l>> : l \in BuilderLabels}
    \cup {<<"checked", ch>> : ch \in BOOLEAN}
    \cup {<<"block", TRUE>>}
    \cup {<<f, st>> : f \in {"style", "checkbox_style", "label_style"},
                      st \in BuilderStyles}
    \cup {<<f, sy>> : f \in GlyphFields, sy \in BuilderSymbols}
    \cup {<<"label_position", lp>> : lp \in Positions}
    \cup {<<"horizontal_alignment", ha>> : ha \in HorizontalAlignments}
    \cup {<<"vertical_alignment", va>> : va \in VerticalAlignments}
    \cup {<<"min_width", Some(w)>> : w \in BuilderMinWidths}
    \cup {<<"max_width", Some(w)>> : w \in BuilderMaxWidths}
    \cup {<<"wrap_label", wr>> : wr \in BOOLEAN}

(* C15 as stated: after a constructor and any sequence of setter calls,    *)
(* checkedGlyph and uncheckedGlyph are never empty strings.                *)
C15_Original ==
    cb.checked_symbol # <<>> /\ cb.unchecked_symbol # <<>>

(* C15 amended: the widget a constructor returns has the non-empty default *)
(* glyphs; after setter calls a glyph is empty exactly when the last call  *)
(* of its setter passed the empty string, which the setter stores as given.*)
C15_GlyphsAsGiven ==
    /\ calls = 0 => (cb.checked_symbol # <<>> /\ cb.unchecked_symbol # <<>>)
    /\ \A f \in GlyphFields :
          /\ passed[f] = <<>> => (cb[f] = StatedDefault[f] /\ cb[f] # <<>>)
          /\ passed[f] # <<>> => cb[f] = passed[f][1]
          /\ cb[f] = <<>> <=> passed[f] = << <<>> >>

\* a checked widget given the empty string as its checked glyph was rendered
C15_Witness ==
    /\ Rendered /\ cb.checked /\ ~IsEmpty(area)
    /\ cb.checked_symbol = <<>> /\ passed.checked_symbol = << <<>> >>
    /\ cb.unchecked_symbol # <<>>

(* C18: Checkbox::default() has an empty label, checked false, no frame,   *)
(* default styles, the glyphs CHECKED and UNCHECKED, label position Right, *)
(* alignment Left/Top, no minimum or maximum width and wrapping off;       *)
(* Checkbox::new(label, checked) differs from it in label and checked only.*)
C18_Constructors ==
    calls = 0 =>
        /\ \A f \in Fields \ {"label", "checked"} : cb[f] = StatedDefault[f]
        /\ passed = Unset => cb = StatedDefault
        /\ passed # Unset =>
              /\ cb.label = passed.label[1]
              /\ cb.checked = passed.checked[1]
              /\ cb = [StatedDefault EXCEPT !.label = passed.label[1],
                                            !.checked = passed.checked[1]]

\* Checkbox::new was given a label and checked = true
C18_Witness ==
    /\ calls = 0 /\ pc = "build" /\ passed # Unset
    /\ cb.checked /\ LineWidth(cb.label) > 0
    /\ cb.label_position = "Right" /\ cb.checked_symbol = CHECKED

(* C19: after any sequence of setter calls every field holds the value     *)
(* passed to the last call of its setter (style and Styled::set_style      *)
(* being one setter; new passes label and checked), and its default if     *)
(* none was; a setter leaves every other field unchanged and two calls of  *)
(* different setters give the same widget in either order.                 *)
C19_LastValueWins ==
    /\ \A f \in Fields :
          cb[f] = IF passed[f] = <<>> THEN StatedDefault[f] ELSE passed[f][1]
    /\ (pc = "build" /\ calls < MaxCalls) =>
          LET after == [c \in SetterCalls |-> Setter(cb, c[1], c[2])]
          IN  \A c1 \in SetterCalls :
                  /\ after[c1][c1[1]] = c1[2]
                  /\ \A g \in Fields \ {c1[1]} : after[c1][g] = cb[g]
                  /\ \A c2 \in SetterCalls :
                        c1[1] # c2[1] =>
                            Setter(after[c1], c2[1], c2[2])
                                = Setter(after[c2], c1[1], c1[2])

\* the same setter was called twice on a default widget, the second call
\* with another value than the first would have left
C19_Witness ==
    /\ calls = 2
    /\ Cardinality({f \in Fields : passed[f] # <<>>}) = 1
    /\ passed.style = <<Fg("White")>> /\ cb.style = Fg("White")

--------------------------------------------------------------------------
(* Vocabulary of the claim about the fill *)

\* the cells of the area a call after the fill touches: a border cell of
\* the frame, a cell a character is painted into, a cell a wide one covers
TouchedAfterFill ==
    {[x |-> area.x + i, y |-> area.y + j] :
        i \in 0..(area.width - 1), j \in 0..(area.height - 1)}
    \cap ({[x |-> d.x, y |-> d.y] : d \in AllPaintedCells}
          \cup UNION {HiddenCells(ops[k]) :
                          k \in {j \in 1..Len(ops) : IsLineOp(ops[j])}}
          \cup (IF cb.block
                THEN {[x |-> area.x + i, y |-> area.y + j] :
                         i \in {0, area.width - 1}, j \in 0..(area.height - 1)}
                     \cup {[x |-> area.x + i, y |-> area.y + j] :
                         i \in 0..(area.width - 1), j \in {0, area.height - 1}}
                ELSE {}))

(* C16: the first call of every render fills the whole outer area with the *)
(* base style; the frame and every glyph and label line come after it and  *)
(* there is no other fill; so each cell of the outer area no later call    *)
(* touches is blank and carries the base style.                            *)
C16_FillFirst ==
    Rendered =>
        /\ Len(ops) >= 1
        /\ ops[1] = [op |-> "set_style", rect |-> area, style |-> cb.style]
        /\ \A k \in 2..Len(ops) : ops[k].op \in {"block", "line"}
        /\ \A k \in 2..Len(ops) : ops[k].op = "block" => (k = 2 /\ ops[k].rect = area)
        /\ cb.block => (Len(ops) >= 2 /\ ops[2].op = "block")
        /\ LET touched == TouchedAfterFill
           IN  \A i \in 0..(area.width - 1), j \in 0..(area.height - 1) :
                   [x |-> area.x + i, y |-> area.y + j] \notin touched =>
                       BufferCell(ops, area.x + i, area.y + j)
                           = [symbol |-> " ", style |-> cb.style]

\* a framed widget with a base style was rendered: content was painted and
\* cells inside the frame were left to the fill
C16_Witness ==
    /\ Rendered /\ cb.block /\ cb.style = Fg("White")
    /\ area = Rect(0, 0, 12, 3)
    /\ Len(LabelOps) = 1 /\ Len(GlyphOps) = 1
    /\ [x |-> 10, y |-> 1] \notin TouchedAfterFill
    /\ BufferCell(ops, 10, 1).style = Fg("White")

(* C17: the glyph is painted with the effective glyph style: for each      *)
(* attribute the value the glyph-style override sets, and the base style's *)
(* value where the override sets none.                                     *)
C17_GlyphCellsEffectiveStyle ==
    Rendered =>
        /\ \A k \in 1..Len(GlyphOps) :
              GlyphOps[k].line.spans[1].style = Effective(cb.style, cb.checkbox_style)
        /\ \A c \in GlyphCells :
              BufferCell(ops, c.x, c.y).style = Effective(cb.style, cb.checkbox_style)

\* base style fg Blue on bg Black, glyph style fg White: the glyph is
\* painted White on Black
C17_Witness ==
    /\ Rendered
    /\ cb.style = [Fg("Blue") EXCEPT !.bg = "Black"]
    /\ cb.checkbox_style = Fg("White")
    /\ \E c \in GlyphCells :
          BufferCell(ops, c.x, c.y).style = [Fg("White") EXCEPT !.bg = "Black"]

--------------------------------------------------------------------------
(* C20: with the label Right or Left the total content width is glyph      *)
(* width + 1 + the width of the widest label line; the x offset is 0 for   *)
(* Left, floor((width - total) / 2) for Center and width - total for       *)
(* Right; the y offset is the same rule on height minus the number of      *)
(* label lines; each subtraction saturates at 0; width and height are      *)
(* those of the rectangle the widget is laid out in.  The first line       *)
(* painted (the glyph for Right, the first label line for Left) starts at  *)
(* these offsets from the rectangle's origin.                              *)
C20_HorizontalOffsets ==
    (Rendered /\ ~IsEmpty(InnerArea) /\ cb.label_position \in {"Right", "Left"}) =>
        LET a     == render_area
            total == GlyphWidth + 1 + MaxLabelWidth
            room_x == IF a.width > total THEN a.width - total ELSE 0
            room_y == IF a.height > Len(LabelLines)
                      THEN a.height - Len(LabelLines) ELSE 0
            x_off == CASE cb.horizontal_alignment = "Left"   -> 0
                       [] cb.horizontal_alignment = "Center" -> room_x \div 2
                       [] cb.horizontal_alignment = "Right"  -> room_x
            y_off == CASE cb.vertical_alignment = "Top"    -> 0
                       [] cb.vertical_alignment = "Center" -> room_y \div 2
                       [] cb.vertical_alignment = "Bottom" -> room_y
        IN  /\ a = WorkingRect
            /\ LineOps(ops) # <<>>
            /\ LineOps(ops)[1].what
                  = IF cb.label_position = "Right" THEN "glyph" ELSE "label"
            /\ LineOps(ops)[1].rect.x = a.x + x_off
            /\ LineOps(ops)[1].rect.y = a.y + y_off
            /\ (cb.label_position = "Left" /\ Len(GlyphOps) = 1) =>
                  GlyphOps[1].rect.x + GlyphWidth = a.x + x_off + total
            /\ (cb.label_position = "Right" /\ Len(LabelOps) >= 1) =>
                  LabelOps[1].rect.x + MaxLabelWidth = a.x + x_off + total

\* a label centred in a rectangle with an odd number of columns to spare
\* and aligned to the bottom of its three rows
C20_Witness ==
    /\ Rendered /\ cb.label_position = "Right"
    /\ cb.horizontal_alignment = "Center" /\ cb.vertical_alignment = "Bottom"
    /\ Len(LabelLines) = 1 /\ MaxLabelWidth = 2 /\ render_area.height = 3
    /\ render_area.width - (GlyphWidth + 1 + MaxLabelWidth) = 3
    /\ LineOps(ops) # <<>>
    /\ LineOps(ops)[1].rect.x = render_area.x + 1
    /\ LineOps(ops)[1].rect.y = render_area.y + 2

--------------------------------------------------------------------------
(* Vocabulary of the claims about the vertical layout *)

Vertical == cb.label_position \in {"Top", "Bottom"}

\* the y offset of the vertical layout: the three-way rule on the height of
\* the rectangle minus 1 + the number of label lines
VerticalOffsetY == ThreeWay(cb.vertical_alignment, render_area.height, 1 + Len(LabelLines))

(* C21: with the label on Top or Bottom the content height is 1 + the      *)
(* number of label lines and the y offset follows the three-way rule on    *)
(* the height minus it; Top: label line i on row offset_y + i, the glyph   *)
(* on row offset_y + number of label lines; Bottom: the glyph on row       *)
(* offset_y, label line i on row offset_y + 1 + i; rows past the last row  *)
(* of the rectangle are not painted.                                       *)
C21_VerticalRows ==
    (Rendered /\ ~IsEmpty(InnerArea) /\ Vertical) =>
        LET a == render_area
            n == Len(LabelLines)
            offset_y == VerticalOffsetY
            first == IF cb.label_position = "Top" THEN offset_y ELSE offset_y + 1
            shown == Max(0, Min(n, a.height - first))
            glyph_row == IF cb.label_position = "Top" THEN offset_y + n ELSE offset_y
        IN  /\ Len(LabelOps) = shown
            /\ \A i \in 0..(shown - 1) :
                  /\ LabelOps[i + 1].rect.y = a.y + first + i
                  /\ LabelOps[i + 1].rect.height = 1
                  /\ LabelOps[i + 1].line = LabelLines[i + 1]
            /\ Len(GlyphOps) = IF glyph_row < a.height THEN 1 ELSE 0
            /\ Len(GlyphOps) = 1 =>
                  /\ GlyphOps[1].rect.y = a.y + glyph_row
                  /\ GlyphOps[1].rect.height = 1
            /\ cb.label_position = "Top" =>
                  LineOps(ops) = LabelOps \o GlyphOps
            /\ cb.label_position = "Bottom" =>
                  LineOps(ops) = GlyphOps \o LabelOps

\* a label above the glyph, aligned to the bottom of three rows: the label
\* on the second row, the glyph on the third
C21_Witness ==
    /\ Rendered /\ cb.label_position = "Top" /\ cb.vertical_alignment = "Bottom"
    /\ render_area.height = 3 /\ Len(LabelLines) = 1
    /\ Len(LabelOps) = 1 /\ Len(GlyphOps) = 1
    /\ LabelOps[1].rect.y = area.y + 1
    /\ GlyphOps[1].rect.y = area.y + 2

(* C22: with the label on Top or Bottom each painted row has its own x     *)
(* offset, the three-way horizontal rule on the width of the rectangle     *)
(* minus that row's own width (the glyph's for the glyph row, the line's   *)
(* for a label line), whatever the other rows are.                         *)
C22_RowsAlignedAlone ==
    (Rendered /\ ~IsEmpty(InnerArea) /\ Vertical) =>
        /\ \A k \in 1..Len(GlyphOps) :
              GlyphOps[k].rect.x
                  = render_area.x
                    + ThreeWay(cb.horizontal_alignment, render_area.width, GlyphWidth)
        /\ \A k \in 1..Len(LabelOps) :
              LabelOps[k].rect.x
                  = render_area.x
                    + ThreeWay(cb.horizontal_alignment, render_area.width,
                               LineWidth(LabelOps[k].line))

\* a glyph three columns wide and a label one column wide, both aligned to
\* the right: they start at different columns
C22_Witness ==
    /\ Rendered /\ Vertical /\ cb.horizontal_alignment = "Right"
    /\ GlyphWidth = 3 /\ Len(LabelOps) = 1 /\ Len(GlyphOps) = 1
    /\ LineWidth(LabelOps[1].line) = 1
    /\ render_area.width = 4
    /\ GlyphOps[1].rect.x = area.x + 1
    /\ LabelOps[1].rect.x = area.x + 3

(* C23: with wrapLabel the label is wrapped against working width - glyph  *)
(* width - 1, saturating at 0, when the label is Right or Left, and        *)
(* against the working width when it is on Top or Bottom; without          *)
(* wrapLabel the label is laid out as one line, whatever its width.        *)
C23_WrapWidth ==
    (Rendered /\ ~IsEmpty(InnerArea)) =>
        LET w == render_area.width
            beside == IF w > GlyphWidth + 1 THEN w - GlyphWidth - 1 ELSE 0
            expected == IF ~cb.wrap_label THEN <<OwnedLine(cb.label)>>
                        ELSE IF Vertical THEN wrap_text(OwnedLine(cb.label), w)
                        ELSE wrap_text(OwnedLine(cb.label), beside)
        IN  /\ Len(LabelOps) <= Len(expected)
            /\ \A k \in 1..Len(LabelOps) : LabelOps[k].line = expected[k]
            /\ ~cb.wrap_label =>
                  /\ Len(LabelOps) <= 1
                  /\ \A k \in 1..Len(LabelOps) :
                        LineText(LabelOps[k].line) = LineText(cb.label)

\* "a a" below the glyph "[X]" in three columns: wrapped against 3 it stays
\* one line, where the width beside the glyph would have given two
C23_Witness ==
    /\ Rendered /\ cb.wrap_label /\ cb.label_position = "Bottom"
    /\ GlyphWidth = 3 /\ render_area.width = 3 /\ render_area.height = 3
    /\ LineText(cb.label) = <<"a", " ", "a">>
    /\ Len(LabelOps) = 1
    /\ LineText(LabelOps[1].line) = <<"a", " ", "a">>

--------------------------------------------------------------------------
(* Vocabulary of the claims about the packing, the styles and the text of  *)
(* wrap_text                                                               *)

\* the width wrap_text counts for a line: its characters, spaces included
RECURSIVE CountedWidth(_)
CountedWidth(spans) ==
    IF spans = <<>> THEN 0 ELSE Len(Head(spans).content) + CountedWidth(Tail(spans))

\* the first word of a line
FirstWord(l) == SelectSeq(l.spans, IsWordSpan)[1].content

\* the characters of some runs, each with the style of its run
RECURSIVE RunChars(_)
RunChars(spans) ==
    IF spans = <<>> THEN <<>>
    ELSE [j \in 1..Len(Head(spans).content) |->
             [symbol |-> Head(spans).content[j], style |-> Head(spans).style]]
         \o RunChars(Tail(spans))

\* the text "This is a"
ThisIsA == <<"T", "h", "i", "s", " ", "i", "s", " ", "a">>

(* C24: wrap_text packs greedily: a line is ended only when it has content *)
(* and its width + 1 + the width of the next word exceeds maxWidth, so the *)
(* first word of each later line would not have fit on the line before it  *)
(* (widths as wrap_text counts them); "This is a very long label" wrapped  *)
(* to 10 has "This is a" as its first line and no line wider than 10.      *)
C24_GreedyPacking ==
    (Wrapped /\ max_width >= 1) =>
        /\ \A k \in 1..(Len(lines) - 1) :
              /\ lines[k].spans # <<>>
              /\ SelectSeq(lines[k + 1].spans, IsWordSpan) # <<>>
              /\ CountedWidth(lines[k].spans) + 1 + Len(FirstWord(lines[k + 1]))
                    > max_width
        /\ (line = LongLabel /\ max_width = 10) =>
              /\ LineText(lines[1]) = ThisIsA
              /\ \A k \in 1..Len(lines) : LineWidth(lines[k]) <= 10

\* "This is a very long label" was wrapped to 10 columns, into three lines
C24_Witness ==
    /\ Wrapped /\ line = LongLabel /\ max_width = 10
    /\ Len(lines) = 3
    /\ LineText(lines[1]) = ThisIsA

(* C25: wrap_text keeps the style of each run: the characters of the       *)
(* output lines, spaces included, carry in order the styles the characters *)
(* of the input runs carry, and every output span has the style of an      *)
(* input run, also when a run is spread over several lines and when a line *)
(* holds words of several runs.                                            *)
C25_RunStylesKept ==
    Wrapped =>
        /\ RunChars(AllSpans(lines)) = RunChars(line.spans)
        /\ \A k \in 1..Len(AllSpans(lines)) :
              \E j \in 1..Len(line.spans) :
                  AllSpans(lines)[k].style = line.spans[j].style

\* the span is a word of at least one character
IsTextWord(sp) == IsWordSpan(sp) /\ sp.content # <<>>

\* two runs of different styles were wrapped: one line holds a word of each
\* run, and the words of the styled run are on two lines
C25_Witness ==
    /\ Wrapped /\ Len(line.spans) = 2 /\ Len(lines) >= 2
    /\ line.spans[1].style # line.spans[2].style
    /\ \E k \in 1..Len(lines) :
          \E i, j \in 1..Len(lines[k].spans) :
              /\ IsTextWord(lines[k].spans[i]) /\ IsTextWord(lines[k].spans[j])
              /\ lines[k].spans[i].style # lines[k].spans[j].style
    /\ \E k \in 1..(Len(lines) - 1) :
          \E i \in 1..Len(lines[k].spans), j \in 1..Len(lines[k + 1].spans) :
              /\ IsTextWord(lines[k].spans[i]) /\ IsTextWord(lines[k + 1].spans[j])
              /\ lines[k].spans[i].style = Fg("Red")
              /\ lines[k + 1].spans[j].style = Fg("Red")

(* C28: wrap_text with maxWidth >= 1 loses no character: the texts of the  *)
(* output lines, joined with nothing between them, are the texts of the    *)
(* input runs joined; the space a line was broken at opens the next line   *)
(* and consecutive spaces stay.                                            *)
C28_Lossless ==
    (Wrapped /\ max_width >= 1) =>
        /\ SpansText(AllSpans(lines)) = LineText(line)
        /\ \A k \in 2..Len(lines) :
              lines[k].spans # <<>>
              /\ (Len(line.spans) = 1 => lines[k].spans[1].content = <<" ">>)

\* a label with two consecutive spaces was broken into lines
C28_Witness ==
    /\ Wrapped /\ max_width >= 1 /\ Len(lines) >= 2
    /\ Len(line.spans) = 1
    /\ \E k \in 1..(Len(LineText(line)) - 1) :
          LineText(line)[k] = " " /\ LineText(line)[k + 1] = " "
    /\ lines[2].spans[1].content = <<" ">>

--------------------------------------------------------------------------
(* C26: for every widget and every area with area.x + area.width <= 65535  *)
(* and area.y + area.height <= 65535, no 16-bit addition of a render       *)
(* exceeds 65535: the render does not panic and no sum wraps around.       *)
C26_NoOverflow ==
    (pc \in {"rendered", "panicked"}
     /\ area.x + area.width <= U16 - 1 /\ area.y + area.height <= U16 - 1) =>
        /\ pc # "panicked"
        /\ \A sum \in RenderSums(cb, area) : sum <= U16 - 1

--------------------------------------------------------------------------
(* C27: minWidth never influences a render: the widget with minWidth unset *)
(* or set to another value makes the same calls in the same area, and the  *)
(* working width is min(inner width, maxWidth) when maxWidth is set and    *)
(* the inner width otherwise.                                              *)
C27_MinWidthIgnored ==
    Rendered =>
        /\ \A m \in {None, Some(3)} :
              render([cb EXCEPT !.min_width = m], area) = ops
        /\ ~IsEmpty(InnerArea) =>
              render_area.width = IF cb.max_width = None THEN InnerArea.width
                                  ELSE Min(InnerArea.width, cb.max_width[1])

\* a widget with minWidth 30 and wrapping was rendered into ten columns and
\* painted its label
C27_Witness ==
    /\ Rendered /\ cb.min_width = Some(30) /\ cb.wrap_label
    /\ area = Rect(0, 0, 10, 1) /\ LineWidth(cb.label) > 0
    /\ Len(LabelOps) >= 1
    /\ render([cb EXCEPT !.min_width = None], area) = ops

(* C29 as stated: with the label Right or Bottom every render into a       *)
(* non-empty area with a non-empty glyph paints the glyph in a rectangle   *)
(* at least one column wide that starts inside the area, whatever the      *)
(* label, the alignment and the width bounds.                              *)
C29_Original ==
    (Rendered /\ ~IsEmpty(area) /\ cb.label_position \in {"Right", "Bottom"}
     /\ GlyphWidth >= 1) =>
        /\ Len(GlyphOps) = 1
        /\ GlyphOps[1].rect.width >= 1
        /\ InRect(GlyphOps[1].rect.x, GlyphOps[1].rect.y, area)

(* C29 amended: with the label Right or Bottom every render with a         *)
(* non-empty glyph whose working rectangle is not empty (the area inside   *)
(* the frame has a column and a row, and maxWidth is not 0) paints the     *)
(* glyph in a rectangle at least one column wide that starts inside the    *)
(* working rectangle and shows the first character of the glyph, whatever  *)
(* the label, the wrapping, the alignment and minWidth.                    *)
C29_GlyphShown ==
    (Rendered /\ ~IsEmpty(WorkingRect) /\ cb.label_position \in {"Right", "Bottom"}
     /\ GlyphWidth >= 1) =>
        /\ Len(GlyphOps) = 1
        /\ GlyphOps[1].rect.width >= 1
        /\ InRect(GlyphOps[1].rect.x, GlyphOps[1].rect.y, WorkingRect)
        /\ BufferCell(ops, GlyphOps[1].rect.x, GlyphOps[1].rect.y).symbol
              = ExpectedGlyph[1]

\* the glyph "[X]" or "[ ]" was painted, clipped, into an area two columns
\* wide that has no room for the label
C29_Witness ==
    /\ Rendered /\ cb.label_position \in {"Right", "Bottom"}
    /\ area = Rect(3, 2, 2, 2) /\ ~cb.block
    /\ GlyphWidth = 3 /\ LineWidth(cb.label) > 0
    /\ Len(GlyphOps) = 1 /\ GlyphOps[1].rect.width = 2
    /\ cb.label_position = "Right" => LabelOps = <<>>

(* C30: with the label Left the glyph is painted exactly when               *)
(* offset_x + widest label line + 1 is below the working width, and with   *)
(* the label on Top exactly when offset_y + number of label lines is below *)
(* the height; so a label at least working width - 1 columns wide (Left)   *)
(* or with at least as many lines as the area has rows (Top) is painted    *)
(* without the glyph.                                                      *)
C30_GlyphIfStartInside ==
    (Rendered /\ ~IsEmpty(InnerArea) /\ cb.label_position \in {"Left", "Top"}) =>
        LET a     == render_area
            n     == Len(LabelLines)
            x_off == ThreeWay(cb.horizontal_alignment, a.width,
                              GlyphWidth + 1 + MaxLabelWidth)
        IN  /\ Len(GlyphOps) <= 1
            /\ cb.label_position = "Left" =>
                  /\ Len(GlyphOps) = 1 <=> x_off + MaxLabelWidth + 1 < a.width
                  /\ Len(GlyphOps) = 1 =>
                        GlyphOps[1].rect.x = a.x + x_off + MaxLabelWidth + 1
                  /\ MaxLabelWidth + 1 >= a.width =>
                        /\ GlyphOps = <<>>
                        /\ Len(LabelOps) >= 1
                        /\ MaxLabelWidth >= 1 => (\E k \in 1..Len(LabelOps) : PaintedCells(LabelOps[k]) # {})
            /\ cb.label_position = "Top" =>
                  /\ Len(GlyphOps) = 1 <=> VerticalOffsetY + n < a.height
                  /\ Len(GlyphOps) = 1 =>
                        GlyphOps[1].rect.y = a.y + VerticalOffsetY + n
                  /\ n >= a.height =>
                        /\ GlyphOps = <<>>
                        /\ Len(LabelOps) = a.height
                        /\ MaxLabelWidth >= 1 => (\E k \in 1..Len(LabelOps) : PaintedCells(LabelOps[k]) # {})

\* a wrapped label on Top with as many lines as the area has rows was
\* painted without the glyph
C30_Witness ==
    /\ Rendered /\ cb.label_position = "Top" /\ cb.wrap_label
    /\ Len(LabelLines) = 2 /\ render_area.height = 2
    /\ GlyphWidth >= 1
    /\ GlyphOps = <<>> /\ Len(LabelOps) = 2

==========================================================================
